---- MODULE Spec2Model ----
(***************************************************************************)
(* State-machine model of AllDatabaseCloner                                *)
(* (src/src/mongo/db/repl/all_database_cloner.cpp): the connect and        *)
(* listDatabases stages, the sequential clone driver postStage(), and the  *)
(* concurrent readers getStats()/toString().                               *)
(*                                                                         *)
(* Threads: the cloner's own thread (pc), one reader thread (rpc), one     *)
(* other component of the initial sync that may cancel it (ExternalFailure)*)
(* Collaborators whose code is not part of the file (the stage engine of   *)
(* BaseCloner, InitialSyncSharedData, DBClientConnection, DatabaseCloner,  *)
(* StorageInterface) are modelled by their contracts.                      *)
(***************************************************************************)
EXTENDS Integers, Sequences, FiniteSets, Bags, TLC

\* ------------------------------------------------------------------ bounds
\* Longest listDatabases response explored.
MaxLen == 4
\* Retry budget the stage engine grants one stage.
MaxRetries == 1
\* Number of progress updates one nested DatabaseCloner makes to its stats.
MaxProgress == 1

\* ------------------------------------------------------------- value sets
OK == "OK"
\* Database names a listDatabases response may carry.
DbNames == {"admin", "Admin", "local", "a", "b"}
\* One element of the listDatabases response: it has a "name" field or not.
NoNameElem == [hasName |-> FALSE, name |-> ""]
Elems == {[hasName |-> TRUE, name |-> n] : n \in DbNames} \cup {NoNameElem}

SeqsUpTo(S, n) == UNION {[1..k -> S] : k \in 0..n}

\* isMaster replies handed to the handshake validation hook.
IsMasterReplies ==
    { [ok |-> FALSE, status |-> "HostUnreachable", ismaster |-> FALSE, secondary |-> FALSE],
      [ok |-> TRUE, status |-> OK, ismaster |-> TRUE, secondary |-> FALSE],
      [ok |-> TRUE, status |-> OK, ismaster |-> FALSE, secondary |-> TRUE],
      [ok |-> TRUE, status |-> OK, ismaster |-> FALSE, secondary |-> FALSE] }

\* Status(ErrorCodes::NotMasterOrSecondary, "... has been removed ...")
RemovedStatus == "NotMasterOrSecondary: removed from the replication configuration"
\* Status(ErrorCodes::NotMasterOrSecondary, "... is neither primary nor secondary.")
NeitherStatus == "NotMasterOrSecondary: neither primary nor secondary"
AuthStatus == "AuthenticationFailed"
CloneStatus == "CloneFailed"
AdminStatus == "AdminDbInvalid"
ExternalStatus == "CallbackCanceled"

\* No thread holds the lock.
Free == "none"

VARIABLES
    pc,                     \* position of the cloner's thread
    retries,                \* retries of the current stage made so far
    clientHasSource,        \* client->getServerHostAndPort() == getSource()
    hookInstalled,          \* the client carries the handshake validation hook
    sharedStatus,           \* InitialSyncSharedData's initial sync status
    listing,                \* databasesArray, the listDatabases response
    databases,              \* _databases
    stats,                  \* _stats: databasesCloned, databaseStats
    currentDatabaseCloner,  \* _currentDatabaseCloner (set = FALSE: nullptr)
    idx,                    \* position of the range-for in postStage (1-based)
    dbStatus,               \* dbStatus / adminStatus of the current iteration
    mutex,                  \* holder of _mutex
    nestedMutex,            \* holder of the nested DatabaseCloner's own mutex
    rpc,                    \* position of the reader thread
    snap,                   \* the reader's local copy `stats` / its result
    runStatus,              \* outcome of the cloner's run
    stageStatus,            \* status the current stage attempt has ended with so far
    \* history variables (not program state)
    lastHook,               \* last outcome of the role check: reply kind and action
    lastConnect,            \* what the last connect attempt did
    constructed,            \* indices for which a DatabaseCloner was constructed
    failedAt,               \* index of the first failed nested clone, 0 if none
    adminFailedAt,          \* index whose admin validation failed, 0 if none
    validated,              \* indices on which isAdminDbValid was called
    driverWrites,           \* setInitialSyncFailedStatus calls made by postStage
    finals                  \* nested stats as they were when each run() returned

vars == <<pc, retries, clientHasSource, hookInstalled, sharedStatus, listing,
          databases, stats, currentDatabaseCloner, idx, dbStatus, mutex,
          nestedMutex, rpc, snap, runStatus, stageStatus, lastHook, lastConnect,
          constructed, failedAt, adminFailedAt, validated, driverWrites, finals>>

\* ---------------------------------------------------------------- helpers
\* No connect attempt is on record.
NoConnect == [connectCalled |-> FALSE, hookSet |-> FALSE, authTried |-> FALSE]
NullCloner == [set |-> FALSE, dbname |-> "", progress |-> 0]
EmptyStats == [databasesCloned |-> 0, databaseStats |-> << >>]

\* InitialSyncSharedData::setInitialSyncStatusIfOK: set only if currently OK.
setInitialSyncStatusIfOK(cur, status) == IF cur = OK THEN status ELSE cur

\* StringData::equalCaseInsensitive compares the lower-cased strings.
ToLower(s) == IF s = "Admin" THEN "admin" ELSE s
equalCaseInsensitive(s, t) == ToLower(s) = ToLower(t)

\* ErrorCodes::isRetriableError: network and not-master errors are transient.
isTransientError(status) == status \in {"HostUnreachable", RemovedStatus, NeitherStatus}

Init ==
    /\ pc = "connect"
    /\ retries = 0
    /\ clientHasSource = FALSE
    /\ hookInstalled = FALSE
    /\ sharedStatus = OK
    /\ listing = << >>
    /\ databases = << >>
    /\ stats = EmptyStats
    /\ currentDatabaseCloner = NullCloner
    /\ idx = 0
    /\ dbStatus = OK
    /\ mutex = Free
    /\ nestedMutex = Free
    /\ rpc = "idle"
    /\ snap = EmptyStats
    /\ runStatus = OK
    /\ stageStatus = OK
    /\ lastHook = "none"
    /\ lastConnect = NoConnect
    /\ constructed = {}
    /\ failedAt = 0
    /\ adminFailedAt = 0
    /\ validated = {}
    /\ driverWrites = 0
    /\ finals = << >>

\* ensurePrimaryOrSecondary storing the status without the if-OK test.
ensurePrimaryOrSecondary_Overwrite(isMasterReply, otherNodesHasSource, shared) ==
    IF ~isMasterReply.ok
    THEN [status |-> isMasterReply.status, shared |-> shared, wrote |-> FALSE,
          kind |-> "replyFailed"]
    ELSE IF isMasterReply.ismaster \/ isMasterReply.secondary
    THEN [status |-> OK, shared |-> shared, wrote |-> FALSE, kind |-> "primaryOrSecondary"]
    ELSE IF ~otherNodesHasSource
    THEN [status |-> RemovedStatus,
          shared |-> RemovedStatus,
          wrote |-> TRUE, kind |-> "removed"]
    ELSE [status |-> NeitherStatus, shared |-> shared, wrote |-> FALSE, kind |-> "neither"]

\* ensurePrimaryOrSecondary without lines 74-76: a removed source is reported
\* but the shared status is left alone.
ensurePrimaryOrSecondary_NoCancel(isMasterReply, otherNodesHasSource, shared) ==
    IF ~isMasterReply.ok
    THEN [status |-> isMasterReply.status, shared |-> shared, wrote |-> FALSE,
          kind |-> "replyFailed"]
    ELSE IF isMasterReply.ismaster \/ isMasterReply.secondary
    THEN [status |-> OK, shared |-> shared, wrote |-> FALSE, kind |-> "primaryOrSecondary"]
    ELSE IF ~otherNodesHasSource
    THEN [status |-> RemovedStatus,
          shared |-> shared,
          wrote |-> TRUE, kind |-> "removed"]
    ELSE [status |-> NeitherStatus, shared |-> shared, wrote |-> FALSE, kind |-> "neither"]

\* ------------------------------------------------- connect stage (56-100)
\* Variant of ensurePrimaryOrSecondary: a member that is neither primary nor
\* secondary also fails the whole initial sync.
ensurePrimaryOrSecondary_CancelsNeither(isMasterReply, otherNodesHasSource, shared) ==
    IF ~isMasterReply.ok
    THEN [status |-> isMasterReply.status, shared |-> shared, wrote |-> FALSE,
          kind |-> "replyFailed"]
    ELSE IF isMasterReply.ismaster \/ isMasterReply.secondary
    THEN [status |-> OK, shared |-> shared, wrote |-> FALSE, kind |-> "primaryOrSecondary"]
    ELSE IF ~otherNodesHasSource
    THEN [status |-> RemovedStatus,
          shared |-> setInitialSyncStatusIfOK(shared, RemovedStatus),
          wrote |-> TRUE, kind |-> "removed"]
    ELSE [status |-> NeitherStatus,
          shared |-> setInitialSyncStatusIfOK(shared, NeitherStatus),
          wrote |-> TRUE, kind |-> "neither"]

\* AllDatabaseCloner::ensurePrimaryOrSecondary: the status it returns, the
\* shared status it leaves, and whether it called setInitialSyncStatusIfOK.
\* otherNodesHasSource: getSource() is found in getOtherNodesInReplSet().
ensurePrimaryOrSecondary(isMasterReply, otherNodesHasSource, shared) ==
    IF ~isMasterReply.ok
    THEN [status |-> isMasterReply.status, shared |-> shared, wrote |-> FALSE,
          kind |-> "replyFailed"]
    ELSE IF isMasterReply.ismaster \/ isMasterReply.secondary
    THEN [status |-> OK, shared |-> shared, wrote |-> FALSE, kind |-> "primaryOrSecondary"]
    ELSE IF ~otherNodesHasSource
    THEN [status |-> RemovedStatus,
          shared |-> setInitialSyncStatusIfOK(shared, RemovedStatus),
          wrote |-> TRUE, kind |-> "removed"]
    ELSE [status |-> NeitherStatus, shared |-> shared, wrote |-> FALSE, kind |-> "neither"]

\* DBClientConnection: connect() runs the handshake and hands the isMaster reply
\* to the installed hook; checkConnection() does nothing on a live connection
\* and otherwise reconnects, which runs the handshake and the hook again.
Handshake(hooked, isMasterReply, otherNodesHasSource, shared) ==
    IF hooked
    THEN ensurePrimaryOrSecondary(isMasterReply, otherNodesHasSource, shared)
    ELSE [status |-> isMasterReply.status, shared |-> shared, wrote |-> FALSE,
          kind |-> "notcalled"]

\* Stage engine (BaseCloner): what follows a stage attempt that ended with
\* `status`. A cancelled sync is not retried; a transient error is retried
\* while the retry budget lasts; anything else ends the run.
AfterStage(status, shared, tries) ==
    IF status = OK THEN "next"
    ELSE IF shared # OK THEN "stop"
    ELSE IF isTransientError(status) /\ tries < MaxRetries THEN "retry"
    ELSE "stop"

\* Variant of ConnectStage: the hook is installed and connect is called in
\* every attempt, whether or not the client already targets the source.
ConnectStage_AlwaysConnects ==
    /\ pc = "connect"
    /\ hookInstalled' = TRUE
    /\ lastConnect' = [connectCalled |-> TRUE, hookSet |-> TRUE, authTried |-> FALSE]
    /\ pc' = "connecting"
    /\ lastHook' = "none"
    /\ stageStatus' = OK
    /\ UNCHANGED <<retries, clientHasSource, sharedStatus, listing, databases, stats,
                   currentDatabaseCloner, idx, dbStatus, mutex, nestedMutex, rpc,
                   snap, runStatus, constructed, failedAt, adminFailedAt, validated,
                   driverWrites, finals>>

\* lines 85-92 and 94: a connect stage attempt begins. A client that does not
\* target the source gets the hook and goes on to connect(); one that does
\* goes on to checkConnection().
ConnectStage ==
    /\ pc = "connect"
    /\ IF ~clientHasSource
       THEN /\ hookInstalled' = TRUE
            /\ lastConnect' = [connectCalled |-> TRUE, hookSet |-> TRUE,
                               authTried |-> FALSE]
            /\ pc' = "connecting"
       ELSE /\ lastConnect' = NoConnect
            /\ pc' = "checking"
            /\ UNCHANGED hookInstalled
    /\ lastHook' = "none"
    /\ stageStatus' = OK
    /\ UNCHANGED <<retries, clientHasSource, sharedStatus, listing, databases, stats,
                   currentDatabaseCloner, idx, dbStatus, mutex, nestedMutex, rpc,
                   snap, runStatus, constructed, failedAt, adminFailedAt, validated,
                   driverWrites, finals>>

\* line 93: client->connect(getSource(), ...) returns or makes the stage
\* throw; the handshake inside it has run the hook (lines 56-82).
Connect ==
    /\ pc = "connecting"
    /\ \E isMasterReply \in IsMasterReplies, otherNodesHasSource \in BOOLEAN :
         LET hs == Handshake(hookInstalled, isMasterReply, otherNodesHasSource,
                             sharedStatus)
         IN /\ sharedStatus' = hs.shared
            /\ lastHook' = hs.kind
            /\ stageStatus' = hs.status
            /\ pc' = IF hs.status = OK THEN "authenticating" ELSE "connectEnd"
    /\ clientHasSource' = TRUE
    /\ UNCHANGED <<retries, hookInstalled, listing, databases, stats,
                   currentDatabaseCloner, idx, dbStatus, mutex, nestedMutex, rpc,
                   snap, runStatus, lastConnect, constructed, failedAt,
                   adminFailedAt, validated, driverWrites, finals>>

\* line 95: client->checkConnection() finds the connection alive, or
\* reconnects, which runs the handshake and the hook the client carries.
CheckConnection ==
    /\ pc = "checking"
    /\ \/ /\ lastHook' = "notcalled"
          /\ stageStatus' = OK
          /\ pc' = "authenticating"
          /\ UNCHANGED sharedStatus
       \/ \E isMasterReply \in IsMasterReplies, otherNodesHasSource \in BOOLEAN :
            LET hs == Handshake(hookInstalled, isMasterReply, otherNodesHasSource,
                                sharedStatus)
            IN /\ sharedStatus' = hs.shared
               /\ lastHook' = hs.kind
               /\ stageStatus' = hs.status
               /\ pc' = IF hs.status = OK THEN "authenticating" ELSE "connectEnd"
    /\ UNCHANGED <<retries, clientHasSource, hookInstalled, listing, databases, stats,
                   currentDatabaseCloner, idx, dbStatus, mutex, nestedMutex, rpc,
                   snap, runStatus, lastConnect, constructed, failedAt,
                   adminFailedAt, validated, driverWrites, finals>>

\* lines 97-99: replAuthenticate returns; its failure makes the stage throw,
\* its success lets the stage return kContinueNormally.
ReplAuthenticate ==
    /\ pc = "authenticating"
    /\ \E authOK \in BOOLEAN : stageStatus' = IF authOK THEN OK ELSE AuthStatus
    /\ lastConnect' = [lastConnect EXCEPT !.authTried = TRUE]
    /\ pc' = "connectEnd"
    /\ UNCHANGED <<retries, clientHasSource, hookInstalled, sharedStatus, listing,
                   databases, stats, currentDatabaseCloner, idx, dbStatus, mutex,
                   nestedMutex, rpc, snap, runStatus, lastHook, constructed,
                   failedAt, adminFailedAt, validated, driverWrites, finals>>

\* Stage engine (BaseCloner): the connect stage attempt has ended; the run
\* goes on to the next stage, retries this one, or ends with its status.
ConnectStageEnd ==
    /\ pc = "connectEnd"
    /\ LET after == AfterStage(stageStatus, sharedStatus, retries)
       IN /\ pc' = CASE after = "next" -> "listDatabases"
                     [] after = "retry" -> "connect"
                     [] OTHER -> "done"
          /\ retries' = CASE after = "next" -> 0
                          [] after = "retry" -> retries + 1
                          [] OTHER -> retries
          /\ runStatus' = IF after = "stop" THEN stageStatus ELSE runStatus
    /\ stageStatus' = OK
    /\ UNCHANGED <<clientHasSource, hookInstalled, sharedStatus, listing, databases,
                   stats, currentDatabaseCloner, idx, dbStatus, mutex, nestedMutex,
                   rpc, snap, lastHook, lastConnect, constructed, failedAt,
                   adminFailedAt, validated, driverWrites, finals>>

\* ------------------------------------------- listDatabases stage (102-130)
SwapFrontBack(s) ==
    [i \in 1..Len(s) |-> IF i = 1 THEN s[Len(s)] ELSE IF i = Len(s) THEN s[1] ELSE s[i]]

\* appendDatabase testing size() > 2 at line 124.
appendDatabase_SwapOffByOne(dbs, dbBSON) ==
    IF ~dbBSON.hasName THEN dbs
    ELSE IF dbBSON.name = "local" THEN dbs
    ELSE LET d == Append(dbs, dbBSON.name)
         IN IF dbBSON.name = "admin" /\ Len(d) > 2 THEN SwapFrontBack(d) ELSE d

\* appendDatabase without the "local" test of line 115.
appendDatabase_KeepsLocal(dbs, dbBSON) ==
    IF ~dbBSON.hasName THEN dbs
    ELSE LET d == Append(dbs, dbBSON.name)
         IN IF dbBSON.name = "admin" /\ Len(d) > 1 THEN SwapFrontBack(d) ELSE d

\* One iteration of the loop over databasesArray (lines 105-128).
appendDatabase(dbs, dbBSON) ==
    IF ~dbBSON.hasName THEN dbs
    ELSE IF dbBSON.name = "local" THEN dbs
    ELSE LET d == Append(dbs, dbBSON.name)
         IN IF dbBSON.name = "admin" /\ Len(d) > 1 THEN SwapFrontBack(d) ELSE d

RECURSIVE listDatabasesLoop(_, _, _)
listDatabasesLoop(dbs, databasesArray, i) ==
    IF i > Len(databasesArray) THEN dbs
    ELSE listDatabasesLoop(appendDatabase(dbs, databasesArray[i]), databasesArray, i + 1)

\* AllDatabaseCloner::listDatabasesStage: _databases after the stage.
listDatabasesStage(dbs, databasesArray) == listDatabasesLoop(dbs, databasesArray, 1)

\* AllDatabaseCloner::listDatabasesStage, one attempt. The request of line
\* 104 returns the listing, which the loop turns into _databases; or it
\* throws and leaves _databases as it was. The client may have to reconnect
\* for the request, which runs the handshake and the hook (lines 56-82); a
\* failed handshake makes the request throw. A handshake that passes leaves
\* no trace when the request then succeeds.
ListDatabasesStage ==
    /\ pc = "listDatabases"
    /\ \/ /\ \E databasesArray \in SeqsUpTo(Elems, MaxLen) :
               /\ listing' = databasesArray
               /\ databases' = listDatabasesStage(databases, databasesArray)
          /\ stageStatus' = OK
          /\ lastHook' = "none"
          /\ lastConnect' = NoConnect
          /\ pc' = "listed"
          /\ UNCHANGED sharedStatus
       \/ /\ \E reconnects \in BOOLEAN, isMasterReply \in IsMasterReplies,
                otherNodesHasSource \in BOOLEAN :
               LET hs == IF reconnects
                         THEN Handshake(hookInstalled, isMasterReply,
                                        otherNodesHasSource, sharedStatus)
                         ELSE [status |-> OK, shared |-> sharedStatus,
                               wrote |-> FALSE, kind |-> "notcalled"]
               IN /\ sharedStatus' = hs.shared
                  /\ lastHook' = hs.kind
                  /\ stageStatus' = IF hs.status # OK THEN hs.status
                                    ELSE "HostUnreachable"
          /\ pc' = "listFailed"
          /\ UNCHANGED <<listing, databases, lastConnect>>
    /\ UNCHANGED <<retries, clientHasSource, hookInstalled, stats,
                   currentDatabaseCloner, idx, dbStatus, mutex, nestedMutex, rpc,
                   snap, runStatus, constructed, failedAt, adminFailedAt, validated,
                   driverWrites, finals>>

\* Stage engine (BaseCloner): the listDatabases attempt has thrown; the stage
\* is retried or the run ends with its status.
ListDatabasesStageEnd ==
    /\ pc = "listFailed"
    /\ LET after == AfterStage(stageStatus, sharedStatus, retries)
       IN /\ pc' = IF after = "retry" THEN "listDatabases" ELSE "done"
          /\ retries' = IF after = "retry" THEN retries + 1 ELSE retries
          /\ runStatus' = IF after = "retry" THEN runStatus ELSE stageStatus
    /\ stageStatus' = OK
    /\ UNCHANGED <<clientHasSource, hookInstalled, sharedStatus, listing, databases,
                   stats, currentDatabaseCloner, idx, dbStatus, mutex, nestedMutex,
                   rpc, snap, lastHook, lastConnect, constructed, failedAt,
                   adminFailedAt, validated, driverWrites, finals>>

\* Stage engine (BaseCloner): every stage has continued normally, so the run
\* goes on to postStage; the locals of the last stage are gone.
EndStages ==
    /\ pc = "listed"
    /\ listing' = << >>
    /\ retries' = 0
    /\ pc' = "postStage"
    /\ UNCHANGED <<clientHasSource, hookInstalled, sharedStatus, databases,
                   stats, currentDatabaseCloner, idx, dbStatus, mutex, nestedMutex,
                   rpc, snap, runStatus, stageStatus, lastHook, lastConnect,
                   constructed, failedAt, adminFailedAt, validated, driverWrites,
                   finals>>

\* ------------------------------------- sequential clone driver (132-199)
\* BaseCloner::setInitialSyncFailedStatus: record a failure, first write wins.
setInitialSyncFailedStatus(shared, status) == setInitialSyncStatusIfOK(shared, status)

\* The slots postStage pre-allocates, one per database (lines 137-140).
NewSlot(dbName) == [dbname |-> dbName, progress |-> 0, origin |-> "prealloc"]
\* DatabaseCloner::getStats of the nested unit; `origin` tags the copy.
NestedStats(cloner, origin) ==
    [dbname |-> cloner.dbname, progress |-> cloner.progress, origin |-> origin]

\* Where the range-for of postStage goes with its position at i.
LoopAt(i) == IF i > Len(databases) THEN "returned" ELSE "construct"

\* line 134: lock_guard lk(_mutex)
PostStageLock ==
    /\ pc = "postStage"
    /\ mutex = Free
    /\ mutex' = "driver"
    /\ pc' = "postStageInit"
    /\ UNCHANGED <<retries, clientHasSource, hookInstalled, sharedStatus, listing,
                   databases, stats, currentDatabaseCloner, idx, dbStatus,
                   nestedMutex, rpc, snap, runStatus, lastHook, lastConnect, stageStatus,
                   constructed, failedAt, adminFailedAt, validated,
                   driverWrites, finals>>

\* Variant of PostStageInit: room for the slots is reserved, no slot is added.
PostStageInit_ReserveOnly ==
    /\ pc = "postStageInit"
    /\ stats' = [databasesCloned |-> 0, databaseStats |-> stats.databaseStats]
    /\ mutex' = Free
    /\ idx' = 1
    /\ pc' = LoopAt(1)
    /\ UNCHANGED <<retries, clientHasSource, hookInstalled, sharedStatus, listing,
                   databases, currentDatabaseCloner, dbStatus, nestedMutex, rpc,
                   snap, runStatus, lastHook, lastConnect, stageStatus, constructed, failedAt,
                   adminFailedAt, validated, driverWrites, finals>>

\* lines 135-141: reset the count, pre-allocate the slots, unlock.
PostStageInit ==
    /\ pc = "postStageInit"
    /\ stats' = [databasesCloned |-> 0,
                 databaseStats |-> stats.databaseStats \o
                                   [i \in 1..Len(databases) |-> NewSlot(databases[i])]]
    /\ mutex' = Free
    /\ idx' = 1
    /\ pc' = LoopAt(1)
    /\ UNCHANGED <<retries, clientHasSource, hookInstalled, sharedStatus, listing,
                   databases, currentDatabaseCloner, dbStatus, nestedMutex, rpc,
                   snap, runStatus, lastHook, lastConnect, stageStatus, constructed, failedAt,
                   adminFailedAt, validated, driverWrites, finals>>

\* line 144: lock_guard lk(_mutex)
ConstructLock ==
    /\ pc = "construct"
    /\ mutex = Free
    /\ mutex' = "driver"
    /\ pc' = "constructing"
    /\ UNCHANGED <<retries, clientHasSource, hookInstalled, sharedStatus, listing,
                   databases, stats, currentDatabaseCloner, idx, dbStatus,
                   nestedMutex, rpc, snap, runStatus, lastHook, lastConnect, stageStatus,
                   constructed, failedAt, adminFailedAt, validated,
                   driverWrites, finals>>

\* Variant of Construct: every unit is scoped to the front of the list.
Construct_Front ==
    /\ pc = "constructing"
    /\ currentDatabaseCloner' = [set |-> TRUE, dbname |-> databases[1], progress |-> 0]
    /\ constructed' = constructed \cup {idx}
    /\ mutex' = Free
    /\ pc' = "run"
    /\ UNCHANGED <<retries, clientHasSource, hookInstalled, sharedStatus, listing,
                   databases, stats, idx, dbStatus, nestedMutex, rpc, snap,
                   runStatus, lastHook, lastConnect, stageStatus, failedAt,
                   adminFailedAt, validated, driverWrites, finals>>

\* Construct with the lock_guard of line 144 scoped to the loop body: _mutex
\* stays held while run() is in progress.
Construct_KeepsLock ==
    /\ pc = "constructing"
    /\ currentDatabaseCloner' = [set |-> TRUE, dbname |-> databases[idx], progress |-> 0]
    /\ constructed' = constructed \cup {idx}
    /\ mutex' = mutex
    /\ pc' = "run"
    /\ UNCHANGED <<retries, clientHasSource, hookInstalled, sharedStatus, listing,
                   databases, stats, idx, dbStatus, nestedMutex, rpc, snap,
                   runStatus, lastHook, lastConnect, stageStatus, failedAt,
                   adminFailedAt, validated, driverWrites, finals>>

\* lines 145-151: make the nested DatabaseCloner for databases[idx], unlock.
Construct ==
    /\ pc = "constructing"
    /\ currentDatabaseCloner' = [set |-> TRUE, dbname |-> databases[idx], progress |-> 0]
    /\ constructed' = constructed \cup {idx}
    /\ mutex' = Free
    /\ pc' = "run"
    /\ UNCHANGED <<retries, clientHasSource, hookInstalled, sharedStatus, listing,
                   databases, stats, idx, dbStatus, nestedMutex, rpc, snap,
                   runStatus, lastHook, lastConnect, stageStatus, failedAt,
                   adminFailedAt, validated, driverWrites, finals>>

\* line 152, inside run(): the nested unit updates its statistics under its
\* own mutex.
NestedProgress ==
    /\ pc = "run"
    /\ nestedMutex = Free
    /\ currentDatabaseCloner.progress < MaxProgress
    /\ currentDatabaseCloner' =
           [currentDatabaseCloner EXCEPT !.progress = currentDatabaseCloner.progress + 1]
    /\ UNCHANGED <<pc, retries, clientHasSource, hookInstalled, sharedStatus, listing,
                   databases, stats, idx, dbStatus, mutex, nestedMutex, rpc, snap,
                   runStatus, lastHook, lastConnect, stageStatus, constructed, failedAt,
                   adminFailedAt, validated, driverWrites, finals>>

\* The statuses run() of the nested unit may return: a unit fails when the
\* shared status is no longer OK; it succeeds only with its work done.
NestedResults(shared, cloner) ==
    IF shared # OK THEN {shared, CloneStatus}
    ELSE IF cloner.progress = MaxProgress THEN {OK, CloneStatus}
    ELSE {CloneStatus}

\* line 152: run() returns dbStatus.
NestedRunReturn ==
    /\ pc = "run"
    /\ \E result \in NestedResults(sharedStatus, currentDatabaseCloner) :
         dbStatus' = result
    /\ finals' = Append(finals, NestedStats(currentDatabaseCloner, "final"))
    /\ pc' = "afterRun"
    /\ UNCHANGED <<retries, clientHasSource, hookInstalled, sharedStatus, listing,
                   databases, stats, currentDatabaseCloner, idx, mutex, nestedMutex,
                   rpc, snap, runStatus, lastHook, lastConnect, stageStatus, constructed,
                   failedAt, adminFailedAt, validated, driverWrites>>

\* Variant of AfterRun: the validation is chosen by an exact comparison of
\* the name with "admin".
AfterRun_ExactName ==
    /\ pc = "afterRun"
    /\ IF dbStatus # OK
       THEN /\ sharedStatus' = setInitialSyncFailedStatus(sharedStatus, dbStatus)
            /\ driverWrites' = driverWrites + 1
            /\ failedAt' = idx
            /\ pc' = "returned"
       ELSE /\ pc' = IF databases[idx] = "admin" THEN "validate" ELSE "finalize"
            /\ UNCHANGED <<sharedStatus, driverWrites, failedAt>>
    /\ UNCHANGED <<retries, clientHasSource, hookInstalled, listing, databases, stats,
                   currentDatabaseCloner, idx, dbStatus, mutex, nestedMutex, rpc,
                   snap, runStatus, lastHook, lastConnect, stageStatus, constructed, adminFailedAt,
                   validated, finals>>

\* Variant of AfterRun: the failure is stored unconditionally, replacing an
\* earlier one.
AfterRun_Overwrites ==
    /\ pc = "afterRun"
    /\ IF dbStatus # OK
       THEN /\ sharedStatus' = dbStatus
            /\ driverWrites' = driverWrites + 1
            /\ failedAt' = idx
            /\ pc' = "returned"
       ELSE /\ pc' = IF equalCaseInsensitive(databases[idx], "admin")
                     THEN "validate" ELSE "finalize"
            /\ UNCHANGED <<sharedStatus, driverWrites, failedAt>>
    /\ UNCHANGED <<retries, clientHasSource, hookInstalled, listing, databases, stats,
                   currentDatabaseCloner, idx, dbStatus, mutex, nestedMutex, rpc,
                   snap, runStatus, lastHook, lastConnect, stageStatus, constructed, adminFailedAt,
                   validated, finals>>

\* AfterRun with the `return` of line 168 left out: the loop goes on.
AfterRun_NoReturn ==
    /\ pc = "afterRun"
    /\ IF dbStatus # OK
       THEN /\ sharedStatus' = setInitialSyncFailedStatus(sharedStatus, dbStatus)
            /\ driverWrites' = driverWrites + 1
            /\ failedAt' = idx
            /\ pc' = "finalize"
       ELSE /\ pc' = IF equalCaseInsensitive(databases[idx], "admin")
                     THEN "validate" ELSE "finalize"
            /\ UNCHANGED <<sharedStatus, driverWrites, failedAt>>
    /\ UNCHANGED <<retries, clientHasSource, hookInstalled, listing, databases, stats,
                   currentDatabaseCloner, idx, dbStatus, mutex, nestedMutex, rpc,
                   snap, runStatus, lastHook, lastConnect, stageStatus, constructed, adminFailedAt,
                   validated, finals>>

\* lines 153-170: on failure record it and return; else go on to the admin
\* validation (name matches "admin" case-insensitively) or to the bookkeeping.
AfterRun ==
    /\ pc = "afterRun"
    /\ IF dbStatus # OK
       THEN /\ sharedStatus' = setInitialSyncFailedStatus(sharedStatus, dbStatus)
            /\ driverWrites' = driverWrites + 1
            /\ failedAt' = idx
            /\ pc' = "returned"
       ELSE /\ pc' = IF equalCaseInsensitive(databases[idx], "admin")
                     THEN "validate" ELSE "finalize"
            /\ UNCHANGED <<sharedStatus, driverWrites, failedAt>>
    /\ UNCHANGED <<retries, clientHasSource, hookInstalled, listing, databases, stats,
                   currentDatabaseCloner, idx, dbStatus, mutex, nestedMutex, rpc,
                   snap, runStatus, lastHook, lastConnect, stageStatus, constructed, adminFailedAt,
                   validated, finals>>

\* ValidateAdmin with the `return` of line 189 left out.
ValidateAdmin_NoReturn ==
    /\ pc = "validate"
    /\ validated' = validated \cup {idx}
    /\ \E adminStatus \in {OK, AdminStatus} :
         /\ dbStatus' = adminStatus
         /\ IF adminStatus # OK
            THEN /\ sharedStatus' = setInitialSyncFailedStatus(sharedStatus, adminStatus)
                 /\ driverWrites' = driverWrites + 1
                 /\ adminFailedAt' = idx
                 /\ pc' = "finalize"
            ELSE /\ pc' = "finalize"
                 /\ UNCHANGED <<sharedStatus, driverWrites, adminFailedAt>>
    /\ UNCHANGED <<retries, clientHasSource, hookInstalled, listing, databases, stats,
                   currentDatabaseCloner, idx, mutex, nestedMutex, rpc, snap,
                   runStatus, lastHook, lastConnect, stageStatus, constructed, failedAt, finals>>

\* lines 171-190: isAdminDbValid; on failure record it and return.
ValidateAdmin ==
    /\ pc = "validate"
    /\ validated' = validated \cup {idx}
    /\ \E adminStatus \in {OK, AdminStatus} :
         /\ dbStatus' = adminStatus
         /\ IF adminStatus # OK
            THEN /\ sharedStatus' = setInitialSyncFailedStatus(sharedStatus, adminStatus)
                 /\ driverWrites' = driverWrites + 1
                 /\ adminFailedAt' = idx
                 /\ pc' = "returned"
            ELSE /\ pc' = "finalize"
                 /\ UNCHANGED <<sharedStatus, driverWrites, adminFailedAt>>
    /\ UNCHANGED <<retries, clientHasSource, hookInstalled, listing, databases, stats,
                   currentDatabaseCloner, idx, mutex, nestedMutex, rpc, snap,
                   runStatus, lastHook, lastConnect, stageStatus, constructed, failedAt, finals>>

\* line 193: lock_guard lk(_mutex)
FinalizeLock ==
    /\ pc = "finalize"
    /\ mutex = Free
    /\ mutex' = "driver"
    /\ pc' = "finalizeLocked"
    /\ UNCHANGED <<retries, clientHasSource, hookInstalled, sharedStatus, listing,
                   databases, stats, currentDatabaseCloner, idx, dbStatus,
                   nestedMutex, rpc, snap, runStatus, lastHook, lastConnect, stageStatus,
                   constructed, failedAt, adminFailedAt, validated,
                   driverWrites, finals>>

\* line 194: _currentDatabaseCloner->getStats() takes the nested unit's mutex.
FinalizeNestedLock ==
    /\ pc = "finalizeLocked"
    /\ nestedMutex = Free
    /\ nestedMutex' = "driver"
    /\ pc' = "finalizeNested"
    /\ UNCHANGED <<retries, clientHasSource, hookInstalled, sharedStatus, listing,
                   databases, stats, currentDatabaseCloner, idx, dbStatus, mutex,
                   rpc, snap, runStatus, lastHook, lastConnect, stageStatus, constructed,
                   failedAt, adminFailedAt, validated, driverWrites, finals>>

\* Variant of Finalize: the name of the cloned database is moved out of the
\* database list, leaving an empty name behind.
Finalize_MovesName ==
    /\ pc = "finalizeNested"
    /\ stats' = [databasesCloned |-> stats.databasesCloned + 1,
                 databaseStats |->
                     [stats.databaseStats EXCEPT ![stats.databasesCloned + 1] =
                          NestedStats(currentDatabaseCloner, "final")]]
    /\ databases' = [databases EXCEPT ![idx] = ""]
    /\ nestedMutex' = Free
    /\ currentDatabaseCloner' = NullCloner
    /\ mutex' = Free
    /\ idx' = idx + 1
    /\ pc' = LoopAt(idx + 1)
    /\ UNCHANGED <<retries, clientHasSource, hookInstalled, sharedStatus, listing,
                   dbStatus, rpc, snap, runStatus, lastHook, lastConnect, stageStatus,
                   constructed, failedAt, adminFailedAt, validated,
                   driverWrites, finals>>

\* Finalize setting the count from the 1-based loop position.
Finalize_CountsPosition ==
    /\ pc = "finalizeNested"
    /\ stats' = [databasesCloned |-> idx + 1,
                 databaseStats |->
                     [stats.databaseStats EXCEPT ![stats.databasesCloned + 1] =
                          NestedStats(currentDatabaseCloner, "final")]]
    /\ nestedMutex' = Free
    /\ currentDatabaseCloner' = NullCloner
    /\ mutex' = Free
    /\ idx' = idx + 1
    /\ pc' = LoopAt(idx + 1)
    /\ UNCHANGED <<retries, clientHasSource, hookInstalled, sharedStatus, listing,
                   databases, dbStatus, rpc, snap, runStatus, lastHook, lastConnect, stageStatus,
                   constructed, failedAt, adminFailedAt, validated,
                   driverWrites, finals>>

\* Finalize without the copy of line 194.
Finalize_NoStore ==
    /\ pc = "finalizeNested"
    /\ stats' = [databasesCloned |-> stats.databasesCloned + 1,
                 databaseStats |->
                     stats.databaseStats]
    /\ nestedMutex' = Free
    /\ currentDatabaseCloner' = NullCloner
    /\ mutex' = Free
    /\ idx' = idx + 1
    /\ pc' = LoopAt(idx + 1)
    /\ UNCHANGED <<retries, clientHasSource, hookInstalled, sharedStatus, listing,
                   databases, dbStatus, rpc, snap, runStatus, lastHook, lastConnect, stageStatus,
                   constructed, failedAt, adminFailedAt, validated,
                   driverWrites, finals>>

\* Finalize without the reset of line 195.
Finalize_KeepsHandle ==
    /\ pc = "finalizeNested"
    /\ stats' = [databasesCloned |-> stats.databasesCloned + 1,
                 databaseStats |->
                     [stats.databaseStats EXCEPT ![stats.databasesCloned + 1] =
                          NestedStats(currentDatabaseCloner, "final")]]
    /\ nestedMutex' = Free
    /\ currentDatabaseCloner' = currentDatabaseCloner
    /\ mutex' = Free
    /\ idx' = idx + 1
    /\ pc' = LoopAt(idx + 1)
    /\ UNCHANGED <<retries, clientHasSource, hookInstalled, sharedStatus, listing,
                   databases, dbStatus, rpc, snap, runStatus, lastHook, lastConnect, stageStatus,
                   constructed, failedAt, adminFailedAt, validated,
                   driverWrites, finals>>

\* lines 194-197: store the final stats in slot databasesCloned, drop the
\* nested unit, count the database, unlock.
Finalize ==
    /\ pc = "finalizeNested"
    /\ stats' = [databasesCloned |-> stats.databasesCloned + 1,
                 databaseStats |->
                     [stats.databaseStats EXCEPT ![stats.databasesCloned + 1] =
                          NestedStats(currentDatabaseCloner, "final")]]
    /\ nestedMutex' = Free
    /\ currentDatabaseCloner' = NullCloner
    /\ mutex' = Free
    /\ idx' = idx + 1
    /\ pc' = LoopAt(idx + 1)
    /\ UNCHANGED <<retries, clientHasSource, hookInstalled, sharedStatus, listing,
                   databases, dbStatus, rpc, snap, runStatus, lastHook, lastConnect, stageStatus,
                   constructed, failedAt, adminFailedAt, validated,
                   driverWrites, finals>>

\* BaseCloner::run after postStage returned: the run ends with the shared status.
Finish ==
    /\ pc = "returned"
    /\ runStatus' = sharedStatus
    /\ pc' = "done"
    /\ UNCHANGED <<retries, clientHasSource, hookInstalled, sharedStatus, listing,
                   databases, stats, currentDatabaseCloner, idx, dbStatus, mutex,
                   nestedMutex, rpc, snap, lastHook, lastConnect, stageStatus, constructed,
                   failedAt, adminFailedAt, validated, driverWrites, finals>>

\* ------------------------------------------------- readers (201-216)
\* lines 202-203: lock_guard lk(_mutex); Stats stats = _stats.
GetStatsLock ==
    /\ rpc = "idle"
    /\ mutex = Free
    /\ mutex' = "reader"
    /\ snap' = stats
    /\ rpc' = "copied"
    /\ UNCHANGED <<pc, retries, clientHasSource, hookInstalled, sharedStatus, listing,
                   databases, stats, currentDatabaseCloner, idx, dbStatus, runStatus,
                   lastHook, lastConnect, stageStatus, constructed, failedAt, adminFailedAt, validated,
                   driverWrites, finals, nestedMutex>>

\* lines 204-205: a nested unit exists; its getStats() takes its own mutex.
GetStatsNestedLock ==
    /\ rpc = "copied"
    /\ currentDatabaseCloner.set
    /\ nestedMutex = Free
    /\ nestedMutex' = "reader"
    /\ rpc' = "nested"
    /\ UNCHANGED <<pc, retries, clientHasSource, hookInstalled, sharedStatus, listing,
                   databases, stats, currentDatabaseCloner, idx, dbStatus, runStatus,
                   lastHook, lastConnect, stageStatus, constructed, failedAt, adminFailedAt, validated,
                   driverWrites, finals, mutex, snap>>

\* line 205: overwrite slot databasesCloned of the copy with the nested
\* unit's live stats; the nested getStats() releases the unit's mutex.
GetStatsNestedRead ==
    /\ rpc = "nested"
    /\ snap' = [snap EXCEPT !.databaseStats[stats.databasesCloned + 1] =
                    NestedStats(currentDatabaseCloner, "live")]
    /\ nestedMutex' = Free
    /\ rpc' = "returning"
    /\ UNCHANGED <<pc, retries, clientHasSource, hookInstalled, sharedStatus, listing,
                   databases, stats, currentDatabaseCloner, idx, dbStatus, runStatus,
                   lastHook, lastConnect, stageStatus, constructed, failedAt, adminFailedAt, validated,
                   driverWrites, finals, mutex>>

\* line 204: no nested unit, the copy is returned as it is.
GetStatsNoNested ==
    /\ rpc = "copied"
    /\ ~currentDatabaseCloner.set
    /\ rpc' = "returning"
    /\ UNCHANGED <<pc, retries, clientHasSource, hookInstalled, sharedStatus, listing,
                   databases, stats, currentDatabaseCloner, idx, dbStatus, runStatus,
                   lastHook, lastConnect, stageStatus, constructed, failedAt, adminFailedAt, validated,
                   driverWrites, finals, mutex, nestedMutex, snap>>

\* line 207: `return stats` hands snap to the caller; the lock_guard unlocks.
GetStatsReturn ==
    /\ rpc = "returning"
    /\ mutex' = Free
    /\ snap' = EmptyStats
    /\ rpc' = "idle"
    /\ UNCHANGED <<pc, retries, clientHasSource, hookInstalled, sharedStatus, listing,
                   databases, stats, currentDatabaseCloner, idx, dbStatus, runStatus,
                   lastHook, lastConnect, stageStatus, constructed, failedAt, adminFailedAt, validated,
                   driverWrites, finals, nestedMutex>>

\* line 211: toString takes _mutex.
ToStringLock ==
    /\ rpc = "idle"
    /\ mutex = Free
    /\ mutex' = "reader"
    /\ rpc' = "toString"
    /\ UNCHANGED <<pc, retries, clientHasSource, hookInstalled, sharedStatus, listing,
                   databases, stats, currentDatabaseCloner, idx, dbStatus, runStatus,
                   lastHook, lastConnect, stageStatus, constructed, failedAt, adminFailedAt, validated,
                   driverWrites, finals, nestedMutex, snap>>

\* lines 212-216: build the string from _stats.databasesCloned, unlock.
ToStringReturn ==
    /\ rpc = "toString"
    /\ mutex' = Free
    /\ rpc' = "idle"
    /\ UNCHANGED <<pc, retries, clientHasSource, hookInstalled, sharedStatus, listing,
                   databases, stats, currentDatabaseCloner, idx, dbStatus, runStatus,
                   lastHook, lastConnect, stageStatus, constructed, failedAt, adminFailedAt, validated,
                   driverWrites, finals, nestedMutex, snap>>

\* ------------------------------------------------------ other components
\* Another component of the initial sync records a failure in the shared
\* state (setInitialSyncStatusIfOK), e.g. to cancel the sync.
ExternalFailure ==
    /\ pc # "done"
    /\ sharedStatus' = setInitialSyncStatusIfOK(sharedStatus, ExternalStatus)
    /\ UNCHANGED <<pc, retries, clientHasSource, hookInstalled, listing, databases,
                   stats, currentDatabaseCloner, idx, dbStatus, mutex, nestedMutex,
                   rpc, snap, runStatus, lastHook, lastConnect, stageStatus, constructed, failedAt,
                   adminFailedAt, validated, driverWrites, finals>>

\* ---------------------------------------------------------- specification
\* The steps of the cloner's own thread.
ClonerStep ==
    \/ ConnectStage
    \/ Connect
    \/ CheckConnection
    \/ ReplAuthenticate
    \/ ConnectStageEnd
    \/ ListDatabasesStage
    \/ ListDatabasesStageEnd
    \/ EndStages
    \/ PostStageLock
    \/ PostStageInit
    \/ ConstructLock
    \/ Construct
    \/ NestedProgress
    \/ NestedRunReturn
    \/ AfterRun
    \/ ValidateAdmin
    \/ FinalizeLock
    \/ FinalizeNestedLock
    \/ Finalize
    \/ Finish

\* The steps of a thread calling getStats() or toString().
ReaderStep ==
    \/ GetStatsLock
    \/ GetStatsNestedLock
    \/ GetStatsNestedRead
    \/ GetStatsNoNested
    \/ GetStatsReturn
    \/ ToStringLock
    \/ ToStringReturn

Next ==
    \/ ClonerStep
    \/ ReaderStep
    \/ ExternalFailure

Spec == Init /\ [][Next]_vars

\* ------------------------------------------------------------------ claims
Range(f) == {f[i] : i \in DOMAIN f}
\* postStage has returned (early or at the end of the loop).
PostStageReturned == pc = "returned" \/ (pc = "done" /\ idx >= 1)

\* C1: if the nested clone at (1-based) index failedAt is the first to fail,
\* then postStage returns at once: databasesCloned is the number of databases
\* before it, the shared status holds a failure, and no nested unit was
\* constructed for a later index.
C1_FailFast ==
    failedAt > 0 =>
        /\ PostStageReturned
        /\ stats.databasesCloned = failedAt - 1
        /\ sharedStatus # OK
        /\ constructed = 1..failedAt

\* The second of three databases failed and the run is over.
C1_Witness ==
    /\ pc = "done"
    /\ failedAt = 2
    /\ Len(databases) = 3

\* C2: once the shared status is a failure, no step changes it (first write
\* wins): not the role check, not postStage, not another component.
C2_FirstWriteWins == [][sharedStatus # OK => sharedStatus' = sharedStatus]_vars

\* Another component's failure is stored, and postStage has since tried to
\* record a different failure of a nested clone.
C2_Witness ==
    /\ sharedStatus = ExternalStatus
    /\ failedAt > 0
    /\ dbStatus = CloneStatus
    /\ driverWrites = 1

\* C3: if the validation of the admin database fails after its clone
\* succeeded, postStage returns without counting it: databasesCloned stays at
\* the number of databases before it, the shared status holds a failure, and
\* no nested unit is constructed for a later database.
C3_AdminValidationFails ==
    adminFailedAt > 0 =>
        /\ PostStageReturned
        /\ failedAt = 0
        /\ stats.databasesCloned = adminFailedAt - 1
        /\ sharedStatus # OK
        /\ constructed = 1..adminFailedAt

\* admin was cloned first, its validation failed, other databases were left.
C3_Witness ==
    /\ pc = "done"
    /\ adminFailedAt = 1
    /\ databases[1] = "admin"
    /\ Len(databases) >= 3
    /\ stats.databasesCloned = 0

\* The names the response lists, in order, without the elements that have no
\* name and without "local".
IsListed(e) == e.hasName /\ e.name # "local"
ListedNames(arr) == LET kept == SelectSeq(arr, IsListed)
                    IN [i \in 1..Len(kept) |-> kept[i].name]
AdminPositions(names) == {i \in 1..Len(names) : names[i] = "admin"}
\* names with the entries at positions i and j exchanged
Exchange(names, i, j) ==
    [k \in 1..Len(names) |-> IF k = i THEN names[j] ELSE IF k = j THEN names[i] ELSE names[k]]

\* C4: when "admin" is listed exactly once, after the stage it is first in
\* _databases, and the other entries are in listing order except for the one
\* entry exchanged with it (the first listed one, which takes admin's place).
C4_AdminFirst ==
    (pc = "listed" /\ Cardinality(AdminPositions(ListedNames(listing))) = 1) =>
        LET names == ListedNames(listing)
            k == CHOOSE i \in AdminPositions(names) : TRUE
        IN /\ databases[1] = "admin"
           /\ databases = Exchange(names, 1, k)

\* admin was listed last of four, after three other databases.
C4_Witness ==
    /\ pc = "listed"
    /\ Len(listing) = 4
    /\ ListedNames(listing) = <<"a", "b", "Admin", "admin">>
    /\ databases = <<"admin", "b", "Admin", "a">>

SeqToBag(names) == [n \in Range(names) |-> Cardinality({i \in DOMAIN names : names[i] = n})]

\* C5: _databases never holds "local" nor an entry made from an element
\* without a name; after the stage it holds every other listed name, as often
\* as it is listed.
C5_Filtered ==
    /\ "local" \notin Range(databases)
    /\ "" \notin Range(databases)
    /\ pc = "listed" =>
          /\ Len(databases) = Len(ListedNames(listing))
          /\ SeqToBag(databases) = SeqToBag(ListedNames(listing))

\* The response held "local", an element without a name, and two others.
C5_Witness ==
    /\ pc = "listed"
    /\ \E i \in DOMAIN listing : listing[i] = NoNameElem
    /\ \E i \in DOMAIN listing : listing[i].name = "local"
    /\ Len(databases) = 2

\* C6: databasesCloned never exceeds the length of _databases, and no step
\* decreases it.
C6_CountBounded ==
    /\ [](stats.databasesCloned <= Len(databases))
    /\ [][stats'.databasesCloned >= stats.databasesCloned]_vars

\* Every one of three databases has been counted.
C6_Witness ==
    /\ Len(databases) = 3
    /\ stats.databasesCloned = 3

\* A step in which the role check may run: connect(), checkConnection(), or
\* the request of the listDatabases stage.
HookStep == pc \in {"connecting", "checking", "listDatabases"} /\ pc' # pc
\* The step in which the stage engine decides what follows a stage attempt.
EngineDecision == pc \in {"connectEnd", "listFailed"} /\ pc' # pc

\* C7 as stated: when the role report succeeds but is neither primary nor
\* secondary, a source absent from the membership ends the run at once with
\* that failure, which is then the shared status; a source that is a member
\* has the stage retried at least once before the run gives up.
C7_AsStated ==
    [][EngineDecision =>
         /\ lastHook = "removed" =>
               /\ pc' = "done"
               /\ runStatus' = RemovedStatus
               /\ sharedStatus = RemovedStatus
         /\ (lastHook = "neither" /\ pc' = "done") => retries >= 1]_vars

\* C7, amended: a source absent from the membership ends the run at once with
\* that failure, and the shared status then holds a failure: that failure if
\* it was OK before, else the failure it already held. A source that is a
\* member has the stage retried at least once before the run gives up,
\* unless the shared status holds a failure (the sync is cancelled).
C7_RoleCheck ==
    /\ [][(HookStep /\ lastHook' = "removed") =>
              /\ stageStatus' = RemovedStatus
              /\ sharedStatus' # OK
              /\ sharedStatus = OK => sharedStatus' = RemovedStatus]_vars
    /\ [][EngineDecision =>
              /\ lastHook = "removed" =>
                    /\ pc' = "done"
                    /\ runStatus' = RemovedStatus
                    /\ retries' = retries
                    /\ sharedStatus # OK
              /\ (lastHook = "neither" /\ pc' = "done" /\ sharedStatus = OK) =>
                    retries >= 1]_vars

\* The first attempt found a member that was neither and was retried; the
\* retry found the source removed, which ended the run and set the status.
C7_Witness ==
    /\ pc = "done"
    /\ retries = 1
    /\ lastHook = "removed"
    /\ runStatus = RemovedStatus
    /\ sharedStatus = RemovedStatus

\* The slots of a Stats value that hold a live copy of a nested unit's stats.
LiveSlots(st) == {i \in DOMAIN st.databaseStats : st.databaseStats[i].origin = "live"}

\* C8: the snapshot getStats returns holds at most one live entry, at index
\* databasesCloned (0-based) of the snapshot, and every entry below that index
\* is the final result of that database's nested clone.
C8_Snapshot ==
    rpc = "returning" =>
        /\ Cardinality(LiveSlots(snap)) <= 1
        /\ \A i \in LiveSlots(snap) : i = snap.databasesCloned + 1
        /\ \A i \in 1..snap.databasesCloned :
               /\ i \in DOMAIN snap.databaseStats
               /\ snap.databaseStats[i] = finals[i]

\* A snapshot taken while the second database is being cloned.
C8_Witness ==
    /\ rpc = "returning"
    /\ pc = "run"
    /\ snap.databasesCloned = 1
    /\ LiveSlots(snap) = {2}
    /\ snap.databaseStats[2].progress = MaxProgress

\* The cloner's thread waits for a mutex another thread holds.
ClonerBlocked ==
    \/ pc \in {"postStage", "construct", "finalize"} /\ mutex # Free
    \/ pc = "finalizeLocked" /\ nestedMutex # Free
\* The reader, inside getStats, waits for the nested unit's mutex.
ReaderBlocked == rpc = "copied" /\ currentDatabaseCloner.set /\ nestedMutex # Free

\* C9: _mutex is not held by the cloner's thread while a nested run() (or the
\* admin validation) is in progress; whoever holds the nested unit's mutex
\* took _mutex first; the cloner and a reader never both wait for each other.
C9_LockOrder ==
    /\ pc \in {"run", "afterRun", "validate"} => mutex # "driver"
    /\ nestedMutex = "reader" => mutex = "reader"
    /\ nestedMutex = "driver" => mutex = "driver"
    /\ ~(ClonerBlocked /\ ReaderBlocked)

\* A reader holds both mutexes while the nested run() is in progress.
C9_Witness ==
    /\ pc = "run"
    /\ mutex = "reader"
    /\ nestedMutex = "reader"

\* C10: when no nested clone and no admin validation failed, postStage ends
\* with every database counted, no nested unit left, and no failure written
\* by it to the shared status; and before the run is over some step of the
\* cloner or of the reader holding a mutex can always be taken.
C10_Success ==
    /\ (pc = "done" /\ idx >= 1 /\ failedAt = 0 /\ adminFailedAt = 0) =>
           /\ stats.databasesCloned = Len(databases)
           /\ ~currentDatabaseCloner.set
           /\ driverWrites = 0
           /\ sharedStatus \in {OK, ExternalStatus}
    /\ pc # "done" => ENABLED (ClonerStep \/ ReaderStep)

\* Three databases, admin among them and validated, all cloned.
C10_Witness ==
    /\ pc = "done"
    /\ Len(databases) = 3
    /\ stats.databasesCloned = 3
    /\ validated = {1}
    /\ failedAt = 0
    /\ adminFailedAt = 0
    /\ sharedStatus = OK

\* ---------------------------------------------------------------- C11
\* The driver has stopped on a failed nested clone or a failed validation.
DriverFailed == failedAt > 0 \/ adminFailedAt > 0

\* C11: the run fails with the first failure recorded in the shared sync
\* state.  When the driver records a failed nested clone or a failed admin
\* validation while the shared state already holds an earlier failure, the
\* earlier failure stays and is the outcome of the run; after the failure
\* the aggregate stats are left as they were (count and finalized slots),
\* and getStats still returns them.
C11_FirstFailureWins ==
    /\ [][(DriverFailed' /\ ~DriverFailed /\ sharedStatus # OK)
              => sharedStatus' = sharedStatus]_vars
    /\ [][(DriverFailed /\ pc = "returned" /\ pc' = "done")
              => (runStatus' = sharedStatus /\ runStatus' # OK)]_vars
    /\ [][DriverFailed => (stats' = stats /\ sharedStatus' = sharedStatus)]_vars
    /\ []((DriverFailed /\ rpc = "returning") =>
             /\ snap.databasesCloned = stats.databasesCloned
             /\ Len(snap.databaseStats) = Len(databases)
             /\ \A i \in 1..stats.databasesCloned :
                    /\ snap.databaseStats[i] = stats.databaseStats[i]
                    /\ snap.databaseStats[i] = finals[i])

\* A run that ended with the earlier external failure although the nested
\* clone of the second database failed with its own status, read by getStats.
C11_Witness ==
    /\ pc = "done"
    /\ failedAt = 2
    /\ dbStatus = CloneStatus
    /\ runStatus = ExternalStatus
    /\ stats.databasesCloned = 1
    /\ rpc = "returning"
    /\ snap.databasesCloned = 1

\* ---------------------------------------------------------------- C12
\* The driver is inside the iteration of the database at idx: its nested unit
\* has been constructed and the bookkeeping block has not finished.
InIteration ==
    pc \in {"run", "afterRun", "validate", "finalize", "finalizeLocked", "finalizeNested"}

\* C12 as stated: the handle is none whenever no nested unit is running, and
\* every unit, after a success and after a failure alike, has been discarded
\* with its final stats copied into its slot.
C12_AsStated ==
    /\ currentDatabaseCloner.set => InIteration
    /\ PostStageReturned =>
           \A i \in constructed : stats.databaseStats[i].origin = "final"

\* C12: the handle is none outside an iteration unless the driver stopped on
\* a failure.  A unit whose clone (and validation) succeeded is discarded in
\* the bookkeeping block, its final stats copied into its slot before the
\* discard; after a failed clone or a failed validation the driver returns
\* with the handle still holding the failed unit and the unit's slot still
\* in its pre-allocated form.
C12_Discard ==
    /\ [](currentDatabaseCloner.set =>
              (InIteration \/ (PostStageReturned /\ DriverFailed)))
    /\ []((PostStageReturned /\ ~DriverFailed) =>
              /\ ~currentDatabaseCloner.set
              /\ \A i \in constructed : stats.databaseStats[i] = finals[i])
    /\ []((PostStageReturned /\ DriverFailed) =>
              /\ currentDatabaseCloner.set
              /\ currentDatabaseCloner.dbname = databases[idx]
              /\ stats.databaseStats[idx] = NewSlot(databases[idx])
              /\ \A i \in constructed \ {idx} : stats.databaseStats[i] = finals[i])
    /\ [][(currentDatabaseCloner.set /\ ~currentDatabaseCloner'.set) =>
              /\ pc = "finalizeNested"
              /\ stats'.databaseStats[stats.databasesCloned + 1] =
                     NestedStats(currentDatabaseCloner, "final")]_vars

\* The first unit was discarded after its success, the second one failed and
\* is still held by the handle after the driver has returned.
C12_Witness ==
    /\ PostStageReturned
    /\ failedAt = 2
    /\ stats.databasesCloned = 1
    /\ stats.databaseStats[1].origin = "final"
    /\ currentDatabaseCloner.set
    /\ currentDatabaseCloner.dbname = databases[2]

\* ---------------------------------------------------------------- C13
\* C13: the role check writes the shared sync state only when the source has
\* been removed from the membership.  When the reply itself failed, when the
\* source is primary or secondary, and when it is neither but still a member,
\* the step in which the check runs leaves the shared sync state unchanged;
\* a failed reply is returned as it is, and primary or secondary yields OK,
\* so that connect() goes on to authentication.
C13_HookFrame ==
    [][HookStep =>
          /\ lastHook' # "removed" => sharedStatus' = sharedStatus
          /\ sharedStatus' # sharedStatus =>
                 (lastHook' = "removed" /\ sharedStatus = OK
                                        /\ sharedStatus' = RemovedStatus)
          /\ lastHook' = "replyFailed" => stageStatus' = "HostUnreachable"
          /\ (lastHook' = "primaryOrSecondary" /\ pc # "listDatabases") =>
                 (stageStatus' = OK /\ pc' = "authenticating")
          /\ lastHook' = "neither" => stageStatus' = NeitherStatus]_vars

\* The source is a member that is neither primary nor secondary; the run gave
\* up with that status and the shared sync state is still OK.
C13_Witness ==
    /\ pc = "done"
    /\ idx = 0
    /\ lastHook = "neither"
    /\ runStatus = NeitherStatus
    /\ sharedStatus = OK

\* ---------------------------------------------------------------- C14
\* C14: in every connect attempt, a client that already targets the source
\* is only checked for liveness: connect is not called and no hook is
\* installed in that attempt.  Otherwise the hook is installed before connect
\* is called, so that it is in place while connect runs.  In both cases
\* authentication is attempted once the connection step has passed, and the
\* stage completes normally only if authentication was attempted and
\* succeeded: an attempt that authenticated and did not complete ended with
\* the authentication failure.
C14_ConnectOrCheck ==
    /\ [][(pc = "connect" /\ pc' # pc) =>
              /\ clientHasSource =>
                     /\ pc' = "checking"
                     /\ ~lastConnect'.connectCalled
                     /\ ~lastConnect'.hookSet
                     /\ hookInstalled' = hookInstalled
              /\ ~clientHasSource =>
                     /\ pc' = "connecting"
                     /\ lastConnect'.connectCalled
                     /\ lastConnect'.hookSet
                     /\ hookInstalled']_vars
    /\ [](pc = "connecting" => (hookInstalled /\ lastConnect.connectCalled))
    /\ [][(pc = "connecting" /\ pc' # pc) => lastHook' # "notcalled"]_vars
    /\ [](pc \in {"checking", "authenticating", "connectEnd"} =>
              (lastConnect.connectCalled <=> lastConnect.hookSet))
    /\ [][(pc \in {"checking", "connecting", "authenticating", "connectEnd"}) =>
              (hookInstalled' = hookInstalled /\
               lastConnect'.connectCalled = lastConnect.connectCalled)]_vars
    /\ [][(pc \in {"connecting", "checking"} /\ pc' # pc) =>
              (pc' = IF stageStatus' = OK THEN "authenticating" ELSE "connectEnd")]_vars
    /\ [][(pc = "authenticating" /\ pc' # pc) =>
              (pc' = "connectEnd" /\ lastConnect'.authTried)]_vars
    /\ [](pc = "connectEnd" =>
              /\ stageStatus = OK => lastConnect.authTried
              /\ (lastConnect.authTried /\ stageStatus # OK) => stageStatus = AuthStatus)
    /\ [][(pc = "connectEnd" /\ pc' = "listDatabases") =>
              (lastConnect.authTried /\ stageStatus = OK)]_vars

\* A retried attempt completed on the liveness check alone: no connect, no
\* hook installed in that attempt, authentication attempted.
C14_Witness ==
    /\ pc = "listDatabases"
    /\ ~lastConnect.connectCalled
    /\ ~lastConnect.hookSet
    /\ lastConnect.authTried
    /\ hookInstalled

\* ---------------------------------------------------------------- C15
\* Position of the run: the connect stage, the listDatabases stage, the end
\* of the stages, the driver's set-up, the driver's loop, after the driver.
StageRank(p) ==
    CASE p = "connect" -> 0
      [] p \in {"connecting", "checking", "authenticating", "connectEnd"} -> 0
      [] p \in {"listDatabases", "listFailed"} -> 1
      [] p = "listed" -> 2
      [] p = "postStage" -> 3
      [] p = "postStageInit" -> 4
      [] p = "returned" -> 6
      [] p = "done" -> 7
      [] OTHER -> 5

\* C15: the stages run in the order connect, listDatabases; the driver is
\* entered at most once and only from the end of a completed enumeration,
\* which is itself entered only from a completed connect stage.  No nested
\* unit is constructed before the driver's loop, and once the driver has
\* started the database list is never modified.
C15_StageOrder ==
    /\ [][StageRank(pc') >= StageRank(pc)]_vars
    /\ [][(pc' # pc /\ pc' = "listDatabases") =>
              ((pc = "connectEnd" /\ stageStatus = OK) \/ pc = "listFailed")]_vars
    /\ [][(pc' # pc /\ pc' = "listed") => pc = "listDatabases"]_vars
    /\ [][(pc' # pc /\ pc' = "postStage") => pc = "listed"]_vars
    /\ [][(pc' # pc /\ pc' = "postStageInit") => pc = "postStage"]_vars
    /\ []((constructed # {} \/ currentDatabaseCloner.set) => StageRank(pc) >= 5)
    /\ [](StageRank(pc) < 3 => idx = 0)
    /\ [][StageRank(pc) >= 3 => databases' = databases]_vars

\* The driver clones the second database of a list of at least three.
C15_Witness ==
    /\ pc = "run"
    /\ idx = 2
    /\ constructed = {1, 2}
    /\ Len(databases) >= 3
    /\ stats.databasesCloned = 1

\* ---------------------------------------------------------------- C16
\* The name is that of the administrative database, whatever its case.
IsAdminName(name) == name \in {"admin", "Admin"}

\* The iteration of database i is past the point of validation: it went on
\* to the bookkeeping block, or it stopped on a failed validation.
PastValidation(i) ==
    \/ i < idx
    \/ /\ i = idx
       /\ \/ pc \in {"finalize", "finalizeLocked", "finalizeNested"}
          \/ adminFailedAt = i

\* C16: validation is performed for a database exactly if its name is
\* "admin" in any case and its nested clone succeeded.  It is performed after
\* the nested run of that database has returned, before the database is
\* counted and before a unit for a later database is constructed.
C16_ValidatedIffAdmin ==
    /\ [](idx >= 1 =>
             validated = {i \in DOMAIN databases :
                              IsAdminName(databases[i]) /\ PastValidation(i)})
    /\ [](failedAt > 0 => failedAt \notin validated)
    /\ [][validated' # validated =>
              /\ validated' = validated \cup {idx}
              /\ idx \notin validated
              /\ dbStatus = OK
              /\ Len(finals) = idx
              /\ stats.databasesCloned = idx - 1
              /\ stats'.databasesCloned = idx - 1
              /\ constructed' = 1..idx]_vars

\* "Admin" was listed second, its clone succeeded and it was validated after
\* the first database had been counted.
C16_Witness ==
    /\ Len(databases) >= 2
    /\ databases[2] = "Admin"
    /\ 2 \in validated
    /\ 1 \notin validated
    /\ pc = "finalize"
    /\ stats.databasesCloned = 1

\* ---------------------------------------------------------------- C17
\* Number of nested runs that have returned success.
OkRuns ==
    Len(finals) - (IF failedAt > 0 \/ (pc = "afterRun" /\ dbStatus # OK) THEN 1 ELSE 0)

\* C17 as stated: once the shared sync state holds a failure, whoever set it
\* and whenever, the count of cloned databases never increases.
C17_AsStated ==
    [][sharedStatus # OK => stats'.databasesCloned <= stats.databasesCloned]_vars

\* C17: given that a nested run fails when the shared sync state holds a
\* failure, once the state holds a failure no nested run returns success any
\* more.  The count of cloned databases never exceeds the number of runs
\* that returned success, so after the failure it can grow by one at most,
\* for the database whose run had already returned success, and at most one
\* further unit is constructed; once a run has failed the driver stops.
C17_Cancellation ==
    /\ [][sharedStatus # OK => OkRuns' = OkRuns]_vars
    /\ [](stats.databasesCloned <= OkRuns)
    /\ [](OkRuns <= stats.databasesCloned + 1)
    /\ [](Cardinality(constructed) <= OkRuns + 1)
    /\ [][(sharedStatus # OK /\ pc = "run" /\ pc' # "run") =>
              (pc' = "afterRun" /\ dbStatus' # OK)]_vars
    /\ [][(pc = "afterRun" /\ dbStatus # OK /\ pc' # pc) => pc' = "returned"]_vars
    /\ [][PostStageReturned =>
              (stats' = stats /\ constructed' = constructed /\ PostStageReturned')]_vars

\* Another component failed the sync after the first database's run had
\* returned success: that database was still counted, the unit of the
\* second one was still constructed, its run failed and the driver stopped.
C17_Witness ==
    /\ pc = "done"
    /\ sharedStatus = ExternalStatus
    /\ failedAt = 2
    /\ dbStatus = ExternalStatus
    /\ stats.databasesCloned = 1
    /\ Len(databases) >= 3
    /\ constructed = {1, 2}

\* ---------------------------------------------------------------- C18
\* C18: databases are cloned one at a time in list order.  A unit is only
\* constructed while the handle is none, the units constructed so far are
\* those of the first databases of the list, and whenever the handle is set
\* it is the unit of the database at index databasesCloned of the list
\* (position databasesCloned + 1 here), whose pre-allocated slot at the same
\* index carries the same name.
C18_OneAtATime ==
    /\ [](currentDatabaseCloner.set =>
             /\ stats.databasesCloned + 1 \in DOMAIN databases
             /\ stats.databasesCloned + 1 \in DOMAIN stats.databaseStats
             /\ currentDatabaseCloner.dbname = databases[stats.databasesCloned + 1]
             /\ stats.databaseStats[stats.databasesCloned + 1].dbname =
                    currentDatabaseCloner.dbname
             /\ stats.databaseStats[stats.databasesCloned + 1].origin = "prealloc"
             /\ idx = stats.databasesCloned + 1)
    /\ [](constructed = 1..(IF currentDatabaseCloner.set
                            THEN stats.databasesCloned + 1
                            ELSE stats.databasesCloned))
    /\ [][constructed' # constructed =>
              /\ ~currentDatabaseCloner.set
              /\ currentDatabaseCloner'.set
              /\ constructed' = constructed \cup {stats.databasesCloned + 1}]_vars

\* The third database of the list is being cloned after two were counted.
C18_Witness ==
    /\ pc = "run"
    /\ currentDatabaseCloner.set
    /\ stats.databasesCloned = 2
    /\ currentDatabaseCloner.dbname = databases[3]
    /\ databases[3] # databases[2]

\* ---------------------------------------------------------------- C19
\* C19: whenever the handle is set, also after an early stop that left it
\* set, databasesCloned is less than the number of slots, so that the slot
\* written at index databasesCloned by getStats and by the driver exists;
\* and getStats writes only the copy it returns: no step of a reader changes
\* the stored stats or the handle.
C19_SlotInBounds ==
    /\ [](currentDatabaseCloner.set =>
              stats.databasesCloned < Len(stats.databaseStats))
    /\ [](rpc = "nested" =>
              /\ currentDatabaseCloner.set
              /\ stats.databasesCloned + 1 \in DOMAIN snap.databaseStats)
    /\ [](pc = "finalizeNested" =>
              stats.databasesCloned + 1 \in DOMAIN stats.databaseStats)
    /\ [][rpc' # rpc =>
              /\ stats' = stats
              /\ currentDatabaseCloner' = currentDatabaseCloner
              /\ databases' = databases]_vars
    /\ [][(rpc = "nested" /\ rpc' = "returning") =>
              /\ snap'.databaseStats[stats.databasesCloned + 1] =
                     NestedStats(currentDatabaseCloner, "live")
              /\ stats.databaseStats[stats.databasesCloned + 1].origin = "prealloc"]_vars

\* getStats read the unit that the driver left in the handle when it stopped
\* on the failed clone of the last database of the list.
C19_Witness ==
    /\ PostStageReturned
    /\ failedAt = Len(databases)
    /\ failedAt >= 2
    /\ currentDatabaseCloner.set
    /\ rpc = "returning"
    /\ LiveSlots(snap) = {failedAt}
    /\ stats.databaseStats[failedAt].origin = "prealloc"

\* ---------------------------------------------------------------- C20
\* C20 as stated: for every listing response, a database on which the admin
\* validation is run is the first database cloned: it sits at the front of
\* the list and no other unit has been constructed before its validation.
C20_AsStated ==
    /\ validated \subseteq {1}
    /\ pc = "validate" => (idx = 1 /\ constructed = {1})

====
